---- MODULE Spec2Model ----
(***************************************************************************)
(* A model of y_middleware (src/main.go): the Kudret middleware stack, the *)
(* chain that build() makes of a handler list, and the dispatch of a       *)
(* request through that chain.                                             *)
(*                                                                         *)
(* A Go slice is modelled as what it is: a window [arr, len, cap] on a     *)
(* backing array that other slices may share.  A *middleware pointer is    *)
(* modelled as a box holding the node it points to (<<>> is the nil        *)
(* pointer): build() allocates every node it links and no code writes to a *)
(* node afterwards, so a pointer is never observed except through the node *)
(* it leads to.                                                            *)
(***************************************************************************)
EXTENDS Integers, Sequences, FiniteSets, TLC

\* ------------------------------------------------------------- bounds ----
\* The number of New/With/Use... calls one behaviour of Spec makes.
MaxOps == 4
\* The longest handler list a stack of SpecServe holds.
MaxChain == 3
\* The most times one handler function invokes its continuation.
MaxCalls == 2

\* ------------------------------------------------------ handler values ---
\* A value of the interface type Handler.  kind names the dynamic type, arg
\* the function or http.Handler it holds.  Functions are named by what they
\* do with the continuation: function f >= 0 invokes next f times; NilFn is
\* the nil function (or the nil http.Handler).
NilFn == -1

\* The nil Handler interface value.
Nil == [kind |-> "nil", arg |-> NilFn]

\* HandlerFunc(f): the adapter type; its ServeHTTP calls f(rw, r, next).
HandlerFunc(f) == [kind |-> "HandlerFunc", arg |-> f]

\* The only plain (two-argument) handler of the model, an http.HandlerFunc.
Plain == 0

\* Wrap(handler): a HandlerFunc closure that runs handler.ServeHTTP(rw, r)
\* and then next(rw, r).
Wrap(handler) == [kind |-> "Wrap", arg |-> handler]

\* WrapFunc(handlerFunc): a HandlerFunc closure that runs handlerFunc(rw, r)
\* and then next(rw, r).
WrapFunc(handlerFunc) == [kind |-> "WrapFunc", arg |-> handlerFunc]

\* The closure voidMiddleware() installs: an empty body.
VoidHandler == [kind |-> "void", arg |-> NilFn]

\* ------------------------------------------------------------- chain -----
\* middleware{}: the zero value, nil handler and nil next.
ZeroMiddleware == [handler |-> Nil, next |-> <<>>]

\* &m for a middleware value m.
Ptr(m) == <<m>>

\* voidMiddleware, had it left the sentinel's next nil.
voidMiddleware_NilNext == [handler |-> VoidHandler, next |-> <<>>]

voidMiddleware == [handler |-> VoidHandler, next |-> Ptr(ZeroMiddleware)]

RECURSIVE build(_)
\* build, had it taken the head from the wrong end of the list.
build_Reversed(handlers) ==
    IF Len(handlers) = 0
    THEN voidMiddleware
    ELSE LET next == IF Len(handlers) > 1
                     THEN build(SubSeq(handlers, 1, Len(handlers) - 1))
                     ELSE voidMiddleware
         IN  [handler |-> handlers[Len(handlers)], next |-> Ptr(next)]

\* build, had it ended the chain of a non-empty list without the sentinel.
build_NoSentinel(handlers) ==
    IF Len(handlers) = 0
    THEN voidMiddleware
    ELSE LET next == IF Len(handlers) > 1
                     THEN build(Tail(handlers))
                     ELSE ZeroMiddleware
         IN  [handler |-> handlers[1], next |-> Ptr(next)]

build(handlers) ==
    IF Len(handlers) = 0
    THEN voidMiddleware
    ELSE LET next == IF Len(handlers) > 1
                     THEN build(Tail(handlers))
                     ELSE voidMiddleware
         IN  [handler |-> handlers[1], next |-> Ptr(next)]

\* The handlers met walking the chain from m up to (excluding) the void
\* sentinel; the walk also stops at a nil next pointer.
RECURSIVE ChainHandlers(_)
ChainHandlers(m) ==
    IF m.handler = VoidHandler \/ m.next = <<>>
    THEN <<>>
    ELSE <<m.handler>> \o ChainHandlers(m.next[1])

\* ------------------------------------------------------------ slices -----
\* The nil slice.
NilSlice == [arr |-> 0, len |-> 0, cap |-> 0]

\* The elements of slice sl, read from the heap of backing arrays arrs.
Elems(arrs, sl) == [i \in 1..sl.len |-> arrs[sl.arr][i]]

\* The capacity the runtime gives a grown slice (runtime.growslice, for
\* capacities under 256; a Handler is 16 bytes, so up to 16 elements every
\* capacity is an allocation size class and is not rounded up).
GrowCap(oldCap, newLen) == IF newLen > 2 * oldCap THEN newLen ELSE 2 * oldCap

\* append(sl, elems...): in place when the capacity suffices, else into a
\* new backing array.  Gives the heap and the slice returned.
GoAppend(arrs, sl, elems) ==
    LET newLen == sl.len + Len(elems) IN
    IF Len(elems) = 0
    THEN [arrays |-> arrs, slice |-> sl]
    ELSE IF newLen <= sl.cap
    THEN [arrays |-> [arrs EXCEPT ![sl.arr] =
                        [i \in 1..sl.cap |->
                            IF i > sl.len /\ i <= newLen
                            THEN elems[i - sl.len] ELSE @[i]]],
          slice  |-> [sl EXCEPT !.len = newLen]]
    ELSE LET newCap == GrowCap(sl.cap, newLen)
             fresh  == [i \in 1..newCap |->
                          IF i <= sl.len THEN arrs[sl.arr][i]
                          ELSE IF i <= newLen THEN elems[i - sl.len]
                          ELSE Nil]
         IN  [arrays |-> Append(arrs, fresh),
              slice  |-> [arr |-> Len(arrs) + 1, len |-> newLen, cap |-> newCap]]

\* The slice a call f(a, b, ...) passes for its variadic parameter: nil for
\* no arguments, else a new array that holds exactly the arguments.
Variadic(arrs, args) ==
    IF Len(args) = 0
    THEN [arrays |-> arrs, slice |-> NilSlice]
    ELSE [arrays |-> Append(arrs, args),
          slice  |-> [arr |-> Len(arrs) + 1, len |-> Len(args), cap |-> Len(args)]]

\* ------------------------------------------------------------- state -----
VARIABLES
    arrays,   \* the heap of backing arrays of []Handler slices
    stacks,   \* the Kudret values made so far, in order of creation
    parent,   \* for each stack, the stack it was derived from by With, or 0
    last,     \* the last registration call: what it was given and how it ended
    ops,      \* the number of registration calls made
    frames,   \* the call stack of the dispatch in progress, outermost first
    trace,    \* what the last dispatch did, in order
    rw,       \* what the handlers of the last dispatch wrote to the response
    status,   \* "idle", or the last dispatch: "running", "done", "panic"
    served,   \* the stack the last dispatch was started on, and its list then
    env,      \* the PORT variable of the process environment
    detected, \* the last call of detectAddress: arguments, PORT read, result
    snapshot, \* the slice the last call of Handlers() returned, and of which stack
    registered, \* for each stack, the handlers registered on it, in order
    store,    \* the assignment to k.middleware in progress: fields still to write
    load      \* the copy of k.middleware a dispatch is taking: fields still to read

aside == <<env, detected, snapshot, registered, store, load>>
registry == <<arrays, stacks, parent, last, aside>>
dispatch == <<frames, trace, rw, status, served>>
vars == <<arrays, stacks, parent, last, ops, frames, trace, rw, status, served,
          env, detected, snapshot, registered, store, load>>

\* Kudret{handlers, middleware}
Kudret(handlers, mw) == [handlers |-> handlers, middleware |-> mw]

\* k.Handlers(), as the sequence of its elements.
Handlers(k) == Elems(arrays, stacks[k].handlers)

\* The handlers stack k runs on dispatch, in order.
Chain(k) == ChainHandlers(stacks[k].middleware)

\* New(handlers...) on a slice already made.
New(arrs, sl) == Kudret(sl, build(Elems(arrs, sl)))

\* The backing arrays the stacks still reach, renumbered in the order the
\* stacks reach them: an unreachable array is garbage.
RECURSIVE Reached(_, _)
Reached(stks, seen) ==
    IF stks = <<>> THEN seen
    ELSE LET a == stks[1].handlers.arr IN
         Reached(Tail(stks),
                 IF a = 0 \/ \E i \in 1..Len(seen) : seen[i] = a
                 THEN seen ELSE Append(seen, a))

Renumber(arrs, stks, first) ==
    LET order == Reached(stks, first)
        id(a) == IF a = 0 THEN 0 ELSE CHOOSE i \in 1..Len(order) : order[i] = a
    IN  [arrays |-> [i \in 1..Len(order) |-> arrs[order[i]]],
         stacks |-> [k \in 1..Len(stks) |->
                       [stks[k] EXCEPT !.handlers.arr = id(@)]]]

\* The slice that Handlers() last returned keeps its array alive, as array 1.
Collect(arrs, stks) ==
    Renumber(arrs, stks, IF snapshot.slice.arr = 0 THEN <<>> ELSE <<1>>)

\* The record of a registration call on stack k.
Called(op, k, args, before, result) ==
    [op |-> op, k |-> k, args |-> args, before |-> before, result |-> result]

Init ==
    /\ arrays = <<>>
    /\ stacks = <<>>
    /\ parent = <<>>
    /\ last = Called("none", 0, <<>>, <<>>, "ok")
    /\ ops = 0
    /\ frames = <<>>
    /\ trace = <<>>
    /\ rw = <<>>
    /\ status = "idle"
    /\ served = [k |-> 0, handlers |-> <<>>]
    /\ env = [set |-> FALSE, val |-> ""]
    /\ detected = [called |-> FALSE, args |-> <<>>, env |-> env, result |-> ""]
    /\ snapshot = [of |-> 0, slice |-> NilSlice, list |-> <<>>, order |-> <<>>]
    /\ registered = <<>>
    /\ store = [m |-> ZeroMiddleware, left |-> {}]
    /\ load = [m |-> ZeroMiddleware, left |-> {}, raced |-> FALSE]

\* ----------------------------------------------------------- New, With ---
NewCall(args) ==
    /\ LET v == Variadic(arrays, args)
           c == Collect(v.arrays, Append(stacks, New(v.arrays, v.slice)))
       IN  /\ arrays' = c.arrays
           /\ stacks' = c.stacks
    /\ parent' = Append(parent, 0)
    /\ last' = Called("New", Len(stacks) + 1, args, <<>>, "ok")

\* With, had it kept the appended slice in the receiver as well.
With_KeepsAppended(k, handlers) ==
    /\ LET r == GoAppend(arrays, stacks[k].handlers, handlers)
           c == Collect(r.arrays,
                        Append([stacks EXCEPT ![k].handlers = r.slice],
                               New(r.arrays, r.slice)))
       IN  /\ arrays' = c.arrays
           /\ stacks' = c.stacks
    /\ parent' = Append(parent, k)
    /\ last' = Called("With", k, handlers, Handlers(k), "ok")

With(k, handlers) ==
    /\ LET r == GoAppend(arrays, stacks[k].handlers, handlers)
           c == Collect(r.arrays, Append(stacks, New(r.arrays, r.slice)))
       IN  /\ arrays' = c.arrays
           /\ stacks' = c.stacks
    /\ parent' = Append(parent, k)
    /\ last' = Called("With", k, handlers, Handlers(k), "ok")

\* ----------------------------------------------------------------- Use ---
\* Use, had it appended before it looked for nil.
UseAs_ChecksLate(op, k, handler) ==
    /\ UNCHANGED parent
    /\ LET r == GoAppend(arrays, stacks[k].handlers, <<handler>>)
           c == Collect(r.arrays, [stacks EXCEPT ![k].handlers = r.slice])
       IN  /\ arrays' = c.arrays
           /\ stacks' = IF handler = Nil THEN c.stacks
                        ELSE [c.stacks EXCEPT ![k].middleware =
                                build(Elems(r.arrays, r.slice))]
    /\ last' = Called(op, k, <<handler>>, Handlers(k),
                      IF handler = Nil THEN "panic" ELSE "ok")

\* Use, had it left the chain as it was.
UseAs_KeepsChain(op, k, handler) ==
    /\ UNCHANGED parent
    /\ IF handler = Nil
       THEN /\ last' = Called(op, k, <<handler>>, Handlers(k), "panic")
            /\ UNCHANGED <<arrays, stacks>>
       ELSE /\ LET r == GoAppend(arrays, stacks[k].handlers, <<handler>>)
                   c == Collect(r.arrays, [stacks EXCEPT ![k].handlers = r.slice])
               IN  /\ arrays' = c.arrays
                   /\ stacks' = c.stacks
            /\ last' = Called(op, k, <<handler>>, Handlers(k), "ok")

\* Use(handler), reached as op (Use itself or one of its three variants).
UseAs(op, k, handler) ==
    /\ UNCHANGED parent
    /\ IF handler = Nil
       THEN /\ last' = Called(op, k, <<handler>>, Handlers(k), "panic")
            /\ UNCHANGED <<arrays, stacks>>
       ELSE /\ LET r == GoAppend(arrays, stacks[k].handlers, <<handler>>)
                   c == Collect(r.arrays,
                                [stacks EXCEPT ![k] =
                                   Kudret(r.slice, build(Elems(r.arrays, r.slice)))])
               IN  /\ arrays' = c.arrays
                   /\ stacks' = c.stacks
            /\ last' = Called(op, k, <<handler>>, Handlers(k), "ok")

Use(k, handler) == UseAs("Use", k, handler)

UseFunc(k, handlerFunc) == UseAs("UseFunc", k, HandlerFunc(handlerFunc))

UseHandler(k, handler) == UseAs("UseHandler", k, Wrap(handler))

UseHandlerFunc(k, handlerFunc) == UseAs("UseHandlerFunc", k, WrapFunc(handlerFunc))

\* ------------------------------------------------------------ dispatch ---
Event(ev, pos, h, calls) == [ev |-> ev, pos |-> pos, h |-> h, calls |-> calls]

\* The frame that runs now, and its depth: the position of its handler.
Top == frames[Len(frames)]
Pos == Len(frames) - 1

\* A panic unwinds the whole dispatch: nothing in the chain recovers.
Panics(fr, tr, pos, h) ==
    [frames |-> <<>>, trace |-> Append(tr, Event("panic", pos, h, 0)),
     status |-> "panic"]

\* middleware.ServeHTTP on receiver m, called with fr on the call stack:
\* m.next.ServeHTTP is bound (a nil m.next panics), then m.handler.ServeHTTP
\* is called (a nil interface panics).
middlewareServeHTTP(m, fr, tr) ==
    LET entered == Append(tr, Event("enter", Len(fr), m.handler, 0)) IN
    IF m.next = <<>> \/ m.handler = Nil
    THEN Panics(fr, entered, Len(fr), m.handler)
    ELSE [frames |-> Append(fr, [m |-> m, calls |-> 0, pc |-> "call"]),
          trace  |-> entered,
          status |-> "running"]

Becomes(r) ==
    /\ frames' = r.frames
    /\ trace' = r.trace
    /\ status' = r.status

\* Kudret.ServeHTTP: the receiver's chain head is copied and run.
KudretServeHTTP(k) ==
    /\ status # "running"
    /\ Becomes(middlewareServeHTTP(stacks[k].middleware, <<>>, <<>>))
    /\ rw' = <<>>
    /\ served' = [k |-> k, handlers |-> Handlers(k)]
    /\ UNCHANGED <<registry, ops>>

\* The node d steps down the chain from m.
RECURSIVE NodeAt(_, _)
NodeAt(m, d) ==
    IF d = 0 \/ m.next = <<>> THEN m ELSE NodeAt(m.next[1], d - 1)

\* The call of next, had it looked the next node up in the stack's chain as
\* it is at the time of the call.
CallNext_ThroughStack(pc) ==
    /\ Becomes(middlewareServeHTTP(
           NodeAt(stacks[served.k].middleware, Pos + 1),
           [frames EXCEPT ![Len(frames)] = [@ EXCEPT !.calls = @ + 1, !.pc = pc]],
           Append(trace, Event("next", Pos, Top.m.handler, Top.calls + 1))))
    /\ UNCHANGED <<rw, served, registry, ops>>

\* The running handler invokes next(rw, r): the bound m.next.ServeHTTP.
CallNext(pc) ==
    /\ Becomes(middlewareServeHTTP(
           Top.m.next[1],
           [frames EXCEPT ![Len(frames)] = [@ EXCEPT !.calls = @ + 1, !.pc = pc]],
           Append(trace, Event("next", Pos, Top.m.handler, Top.calls + 1))))
    /\ UNCHANGED <<rw, served, registry, ops>>

\* The return, had the chain gone on by itself after a handler that made no
\* call of its continuation.
Return_Continues ==
    IF Top.calls = 0 /\ Top.m.handler # VoidHandler
    THEN /\ Becomes(middlewareServeHTTP(
                Top.m.next[1],
                [frames EXCEPT ![Len(frames)].calls = 1],
                trace))
         /\ UNCHANGED <<rw, served, registry, ops>>
    ELSE /\ frames' = SubSeq(frames, 1, Len(frames) - 1)
         /\ trace' = Append(trace, Event("exit", Pos, Top.m.handler, Top.calls))
         /\ status' = IF Len(frames) = 1 THEN "done" ELSE "running"
         /\ UNCHANGED <<rw, served, registry, ops>>

\* The running handler returns to its caller.
Return ==
    /\ frames' = SubSeq(frames, 1, Len(frames) - 1)
    /\ trace' = Append(trace, Event("exit", Pos, Top.m.handler, Top.calls))
    /\ status' = IF Len(frames) = 1 THEN "done" ELSE "running"
    /\ UNCHANGED <<rw, served, registry, ops>>

\* The running handler calls fn, a function or an http.Handler: a nil fn
\* panics, any other writes to the response and comes back.
Runs(fn, pc) ==
    IF fn = NilFn
    THEN /\ Becomes(Panics(frames, trace, Pos, Top.m.handler))
         /\ UNCHANGED <<rw, served, registry, ops>>
    ELSE /\ rw' = Append(rw, Top.m.handler)
         /\ frames' = [frames EXCEPT ![Len(frames)].pc = pc]
         /\ trace' = Append(trace, Event("run", Pos, Top.m.handler, Top.calls))
         /\ UNCHANGED <<status, served, registry, ops>>

Running(kind, pc) ==
    /\ status = "running"
    /\ Top.m.handler.kind = kind
    /\ Top.pc = pc

\* HandlerFunc.ServeHTTP: h(rw, r, next).
HandlerFuncServeHTTP ==
    /\ Running("HandlerFunc", "call")
    /\ Runs(Top.m.handler.arg, "body")

\* Inside function f, had a continuation that was called once ignored the
\* calls after the first.
FuncNext_Once ==
    /\ Running("HandlerFunc", "body")
    /\ Top.calls < Top.m.handler.arg
    /\ IF Top.calls = 0
       THEN CallNext("body")
       ELSE /\ frames' = [frames EXCEPT ![Len(frames)].calls = @ + 1]
            /\ trace' = Append(trace, Event("next", Pos, Top.m.handler, Top.calls + 1))
            /\ UNCHANGED <<status, rw, served, registry, ops>>

\* Inside function f: the next of its f calls of the continuation.
FuncNext ==
    /\ Running("HandlerFunc", "body")
    /\ Top.calls < Top.m.handler.arg
    /\ CallNext("body")

FuncReturn ==
    /\ Running("HandlerFunc", "body")
    /\ Top.calls = Top.m.handler.arg
    /\ Return

\* The closure of Wrap: handler.ServeHTTP(rw, r), then next(rw, r).
WrapHandler ==
    /\ Running("Wrap", "call")
    /\ Runs(Top.m.handler.arg, "next")

\* The closure of Wrap, had it come back without calling next.
WrapNext_Returns ==
    /\ Running("Wrap", "next")
    /\ Return

WrapNext ==
    /\ Running("Wrap", "next")
    /\ CallNext("return")

WrapReturn ==
    /\ Running("Wrap", "return")
    /\ Return

\* The closure of WrapFunc: handlerFunc(rw, r), then next(rw, r).
WrapFuncHandler ==
    /\ Running("WrapFunc", "call")
    /\ Runs(Top.m.handler.arg, "next")

WrapFuncNext ==
    /\ Running("WrapFunc", "next")
    /\ CallNext("return")

WrapFuncReturn ==
    /\ Running("WrapFunc", "return")
    /\ Return

\* The closure of voidMiddleware, had it called next.
VoidReturn_CallsNext ==
    /\ Running("void", "call")
    /\ CallNext("return")

\* The closure of voidMiddleware: an empty body.
VoidReturn ==
    /\ Running("void", "call")
    /\ Return

\* One step of the dispatch in progress.
Step ==
    \/ HandlerFuncServeHTTP
    \/ FuncNext
    \/ FuncReturn
    \/ WrapHandler
    \/ WrapNext
    \/ WrapReturn
    \/ WrapFuncHandler
    \/ WrapFuncNext
    \/ WrapFuncReturn
    \/ VoidReturn

\* ---------------------------------------------------------------- Spec ---
\* Spec: the registration calls alone, on any number of stacks.
A == HandlerFunc(1)
B == Wrap(Plain)
Args == {<<>>, <<A>>, <<A, B>>, <<Nil>>}

\* A registration call of Spec is counted.
Counted ==
    /\ ops < MaxOps
    /\ ops' = ops + 1
    /\ UNCHANGED <<dispatch, aside>>

Next ==
    \/ Counted /\ \E args \in Args : NewCall(args)
    \/ Counted /\ \E k \in 1..Len(stacks), args \in Args : With(k, args)
    \/ Counted /\ \E k \in 1..Len(stacks), h \in {Nil, A} : Use(k, h)
    \/ Counted /\ \E k \in 1..Len(stacks) : UseFunc(k, 1)
    \/ Counted /\ \E k \in 1..Len(stacks) : UseHandler(k, Plain)
    \/ Counted /\ \E k \in 1..Len(stacks) : UseHandlerFunc(k, Plain)

Spec == Init /\ [][Next]_vars

\* SpecServe: one stack, registration and dispatch by turns.
Funcs == 0..MaxCalls \cup {NilFn}
Plains == {Plain, NilFn}
ServeHandlers ==
    {Nil} \cup {HandlerFunc(f) : f \in Funcs}
          \cup {Wrap(p) : p \in Plains} \cup {WrapFunc(p) : p \in Plains}

RECURSIVE Lists(_, _)
Lists(S, n) ==
    IF n = 0 THEN {<<>>}
    ELSE LET shorter == Lists(S, n - 1) IN
         shorter \cup {Append(l, x) : l \in {s \in shorter : Len(s) = n - 1}, x \in S}

\* A registration call of SpecServe is made between dispatches.
Between ==
    /\ status # "running"
    /\ UNCHANGED <<ops, dispatch, aside>>

Room == stacks # <<>> /\ stacks[1].handlers.len < MaxChain

NextServe ==
    \/ stacks = <<>> /\ Between
          /\ \E args \in Lists(ServeHandlers, MaxChain) : NewCall(args)
    \/ Room /\ Between
          /\ \E h \in {Nil} \cup {HandlerFunc(f) : f \in Funcs} : Use(1, h)
    \/ Room /\ Between /\ \E f \in Funcs : UseFunc(1, f)
    \/ Room /\ Between /\ \E p \in Plains : UseHandler(1, p)
    \/ Room /\ Between /\ \E p \in Plains : UseHandlerFunc(1, p)
    \/ stacks # <<>> /\ KudretServeHTTP(1)
    \/ Step

SpecServe == Init /\ [][NextServe]_vars

\* ============================================================== claims ===
StackIds == 1..Len(stacks)
UseOps == {"Use", "UseFunc", "UseHandler", "UseHandlerFunc"}

\* Handlers(k) and Chain(k) after the step.
HandlersAfter(k) == Elems(arrays', stacks'[k].handlers)
ChainAfter(k) == ChainHandlers(stacks'[k].middleware)

\* Stack j holds after the step what it held before it.
Untouched(j) == HandlersAfter(j) = Handlers(j) /\ ChainAfter(j) = Chain(j)

\* C1: every stack's chain, walked from its head to the void sentinel, is
\* its stored handler list, element by element.
C1_ChainIsHandlers == \A k \in StackIds : Chain(k) = Handlers(k)

\* C4: a call of With on stack k leaves k's handler list and the handlers
\* k runs on dispatch as they were.
C4_WithLeavesReceiver ==
    [][\A k \in StackIds : \A args \in Args : With(k, args) => Untouched(k)]_vars

\* C4's case: With has appended in place, into the spare capacity of the
\* receiver's backing array, which the new stack now shares.
C4_Witness ==
    /\ last.op = "With" /\ last.args # <<>>
    /\ stacks[Len(stacks)].handlers.arr = stacks[last.k].handlers.arr
    /\ stacks[last.k].handlers.len > 0

\* C5: a stack d derived from s keeps its handler list and chain through a
\* later Use or With on s, and a later Use on d changes neither s nor
\* another stack derived from s.
C5_DerivedIndependent ==
    [][\A d \in StackIds : parent[d] # 0 =>
          LET s == parent[d] IN
          /\ last'.k = s => Untouched(d)
          /\ last'.k = d /\ last'.op \in UseOps =>
                /\ Untouched(s)
                /\ \A e \in StackIds \ {d} : parent[e] = s => Untouched(e)]_vars

\* C6: Use(nil) panics and leaves the stack as it was; Use of any other
\* handler does not panic, puts the handler at the end of the list and
\* leaves the chain built from the new list.
C6_UseNilPanics ==
    [][last'.op \in UseOps /\ <<last, ops>>' # <<last, ops>> =>
          LET k == last'.k
              h == last'.args[1]
          IN  IF h = Nil
              THEN last'.result = "panic" /\ UNCHANGED <<arrays, stacks>>
              ELSE /\ last'.result = "ok"
                   /\ HandlersAfter(k) = Handlers(k) \o <<h>>
                   /\ stacks'[k].middleware = build(Handlers(k) \o <<h>>)
                   /\ ChainAfter(k) = Handlers(k) \o <<h>>]_vars

\* C6's case: Use(nil) has panicked on a stack that holds handlers, and the
\* stack holds what it held.
C6_Witness ==
    /\ last.op = "Use" /\ last.args = <<Nil>> /\ last.result = "panic"
    /\ last.before # <<>>
    /\ Handlers(last.k) = last.before

\* FairServe: SpecServe where a dispatch in progress keeps running: the
\* goroutine that runs it is scheduled, and no modelled handler blocks.
FairServe == SpecServe /\ WF_vars(Step)

\* ------------------------------------------------ claims on dispatch -----
\* The list the dispatched chain was built from, and its length.
List == served.handlers
N == Len(List)

\* The handler at position p of the dispatched chain: the list, then the
\* void sentinel.
At(p) == IF p < N THEN List[p + 1] ELSE VoidHandler

Events(ev) == {i \in DOMAIN trace : trace[i].ev = ev}
EventsAt(ev, p) == {i \in Events(ev) : trace[i].pos = p}

\* The positions whose handlers were invoked, in the order of invocation.
RECURSIVE Entered(_)
Entered(tr) ==
    IF tr = <<>> THEN <<>>
    ELSE IF tr[1].ev = "enter"
    THEN <<tr[1].pos>> \o Entered(Tail(tr))
    ELSE Entered(Tail(tr))

\* Every handler that came back had called its continuation exactly once.
EachCalledOnce ==
    \A i \in Events("exit") : trace[i].h # VoidHandler => trace[i].calls = 1

\* C2: dispatch through the chain built from a non-empty list invokes h[0]
\* first, invokes h[i+1] only from h[i]'s call of its continuation, and, if
\* every handler calls its continuation exactly once, invokes each handler
\* once, in the order of the list.
C2_RegistrationOrder ==
    status # "idle" /\ N > 0 =>
        /\ trace[1] = Event("enter", 0, List[1], 0)
        /\ \A i \in Events("enter") :
              /\ trace[i].pos <= N
              /\ trace[i].h = At(trace[i].pos)
              /\ i > 1 => /\ trace[i].pos > 0
                          /\ trace[i - 1].ev = "next"
                          /\ trace[i - 1].pos = trace[i].pos - 1
                          /\ trace[i - 1].h = At(trace[i].pos - 1)
        /\ status = "done" /\ EachCalledOnce =>
              Entered(trace) = [i \in 1..N + 1 |-> i - 1]

\* C2's case: three different handlers, each of which called its
\* continuation once, have run to the end.
C2_Witness ==
    /\ status = "done" /\ EachCalledOnce
    /\ List = <<HandlerFunc(1), Wrap(Plain), WrapFunc(Plain)>>
    /\ Entered(trace) = <<0, 1, 2, 3>>

\* C3: if the handler at position i makes no call of its continuation, no
\* handler at a position after i is invoked, and none writes to the
\* response.
C3_ShortCircuit ==
    status # "idle" =>
        \A i \in 0..N - 1 :
            EventsAt("next", i) = {} =>
                /\ \A j \in Events("enter") : trace[j].pos <= i
                /\ \A j \in Events("run") : trace[j].pos <= i
                /\ Len(rw) = Cardinality(Events("run"))
                /\ \A j \in DOMAIN rw : \E p \in 0..i : rw[j] = List[p + 1]

\* C3's case: of [A, B, C], A continued and B did not: A and B wrote to the
\* response and C did not.
C3_Witness ==
    /\ status = "done"
    /\ List = <<HandlerFunc(1), HandlerFunc(0), Wrap(Plain)>>
    /\ rw = <<HandlerFunc(1), HandlerFunc(0)>>

\* C7: the dispatch that follows Use(x) on a stack that held h[0..n-1] runs
\* h[0], ..., h[n-1], x: x is last, the handlers before it keep their
\* order, and x is invoked if and only if each of them called its
\* continuation.
C7_UseThenDispatch ==
    /\ status # "idle"
    /\ last.op \in UseOps /\ last.result = "ok"
    /\ List = last.before \o last.args
    => LET h == last.before
           x == last.args[1]
           n == Len(h)
       IN  /\ \A i \in Events("enter") :
                 /\ trace[i].pos < n => trace[i].h = h[trace[i].pos + 1]
                 /\ trace[i].pos = n => trace[i].h = x
                 /\ trace[i].pos > n => trace[i].pos = n + 1 /\ trace[i].h = VoidHandler
           /\ EventsAt("enter", n) # {} <=>
                 \A p \in 0..n - 1 : EventsAt("next", p) # {}

\* C7's case: a handler added by Use to a stack of two has been invoked by
\* the dispatch that followed.
C7_Witness ==
    /\ status = "done"
    /\ last.op = "Use" /\ last.result = "ok" /\ Len(last.before) = 2
    /\ List = last.before \o last.args
    /\ EventsAt("enter", 2) # {}

\* C8: dispatch on a stack with no handlers ends normally, invokes nothing
\* but the void sentinel, no node with a nil handler, and writes nothing
\* to the response.
C8_EmptyDispatch ==
    status # "idle" /\ N = 0 =>
        /\ status \in {"running", "done"}
        /\ status = "running" => ENABLED Step
        /\ rw = <<>>
        /\ Entered(trace) = <<0>>
        /\ \A i \in DOMAIN trace : trace[i].h = VoidHandler /\ trace[i].ev # "next"
        /\ \A d \in DOMAIN frames : frames[d].m.handler = VoidHandler

C8_Witness ==
    /\ status = "done" /\ N = 0 /\ Handlers(1) = <<>>
    /\ trace = <<Event("enter", 0, VoidHandler, 0), Event("exit", 0, VoidHandler, 0)>>

\* A handler made by Wrap or WrapFunc of a handler that is there to wrap.
Adapted(h) == h.kind \in {"Wrap", "WrapFunc"} /\ h.arg # NilFn

AtMostNPlusOne == Cardinality(Events("enter")) <= N + 1

\* C10 as stated: a dispatch makes at most n+1 handler invocations.
C10_AtMostNPlusOne == status # "idle" => AtMostNPlusOne

\* C10, amended: a dispatch always ends, and makes at most n+1 handler
\* invocations if no handler calls its continuation a second time.
C10_Terminates ==
    /\ [](status # "idle" /\ (\A i \in Events("next") : trace[i].calls <= 1)
            => AtMostNPlusOne)
    /\ (status = "running" ~> status # "running")

\* C10's case: a full list of handlers that each call their continuation
\* has run to the end, in n+1 invocations.
C10_Witness ==
    /\ status = "done" /\ N = MaxChain
    /\ \A p \in 0..N - 1 : EventsAt("next", p) # {}
    /\ Cardinality(Events("enter")) = N + 1

\* C11: a nil handler given to any registration call ends that call in a
\* panic, so no stack's handler list and no stack's chain ever holds nil.
C11_NoNilRegistered ==
    \A k \in StackIds :
        /\ \A i \in 1..Len(Handlers(k)) : Handlers(k)[i] # Nil
        /\ \A i \in 1..Len(Chain(k)) : Chain(k)[i] # Nil
        /\ (last.k = k /\ \E i \in 1..Len(last.args) : last.args[i] = Nil)
              => last.result = "panic"

\* ----------------------------------------------------- detectAddress -----
MaxArgs == 2

DefaultAddress == ":8080"

\* os.Getenv: the value of the variable, "" when it is not set.
Getenv(e) == IF e.set THEN e.val ELSE ""

detectAddress_EnvFirst(addr, e) ==
    LET port == Getenv(e) IN
    IF port # "" THEN ":" \o port
    ELSE IF Len(addr) > 0 THEN addr[1]
    ELSE DefaultAddress

detectAddress(addr, e) ==
    IF Len(addr) > 0 THEN addr[1]
    ELSE LET port == Getenv(e) IN
         IF port # "" THEN ":" \o port
         ELSE DefaultAddress

Ports == {"", "80", "8080", "9090"}
Addrs == {"", ":7000", "localhost:80"}

AddrOnly == UNCHANGED <<arrays, stacks, parent, last, ops, dispatch,
                        snapshot, registered, store, load>>

Setenv(v) ==
    /\ env' = [set |-> TRUE, val |-> v]
    /\ UNCHANGED detected
    /\ AddrOnly

Unsetenv ==
    /\ env' = [set |-> FALSE, val |-> ""]
    /\ UNCHANGED detected
    /\ AddrOnly

DetectAddress(addr) ==
    /\ detected' = [called |-> TRUE, args |-> addr, env |-> env,
                    result |-> detectAddress(addr, env)]
    /\ UNCHANGED env
    /\ AddrOnly

NextAddr ==
    \/ \E v \in Ports : Setenv(v)
    \/ Unsetenv
    \/ \E addr \in Lists(Addrs, MaxArgs) : DetectAddress(addr)

SpecAddr == Init /\ [][NextAddr]_vars

\* C12: detectAddress returns its first argument when it has one, whatever
\* PORT is; with no argument, ":" followed by PORT when PORT is set and not
\* empty; with no argument and PORT unset or empty, ":8080".
C12_Precedence ==
    detected.called =>
        LET addr == detected.args
            e == detected.env
        IN  /\ Len(addr) >= 1 => detected.result = addr[1]
            /\ (Len(addr) = 0 /\ e.set /\ e.val # "")
                  => detected.result = ":" \o e.val
            /\ (Len(addr) = 0 /\ (~e.set \/ e.val = ""))
                  => detected.result = ":8080"

C12_Witness ==
    /\ detected.called
    /\ Len(detected.args) = MaxArgs
    /\ detected.env.set /\ detected.env.val = "9090"
    /\ detected.result = detected.args[1]
    /\ detected.result = ":7000"

\* ------------------------------------------- repeated continuation -----
\* The invocation that the "exit" at index x of the trace ends: its "enter".
EnterOf(x) ==
    CHOOSE e \in EventsAt("enter", trace[x].pos) :
        /\ e < x
        /\ \A e2 \in EventsAt("enter", trace[x].pos) : e2 < x => e2 <= e

\* The events ev at position p from index a to index b of the trace.
Within(ev, p, a, b) == {i \in EventsAt(ev, p) : a < i /\ i < b}

\* C13: a handler that calls its continuation k >= 2 times has the rest of
\* the chain run k times, one run after the other: every call enters the
\* handler at the next position, a call after the first begins only when
\* the run before it has returned, and a handler that came back after k
\* calls had k runs of the rest of the chain, all of them returned.
C13_RepeatedContinuation ==
    status # "idle" =>
        /\ \A i \in Events("next") :
              /\ i < Len(trace)
              /\ trace[i + 1].ev = "enter"
              /\ trace[i + 1].pos = trace[i].pos + 1
              /\ trace[i + 1].h = At(trace[i].pos + 1)
              /\ trace[i].calls >= 2 =>
                    /\ trace[i - 1].ev = "exit"
                    /\ trace[i - 1].pos = trace[i].pos + 1
        /\ \A i, j \in Events("enter") :
              i < j /\ trace[i].pos = trace[j].pos =>
                  Within("exit", trace[i].pos, i, j) # {}
        /\ \A x \in Events("exit") :
              LET p == trace[x].pos
                  k == trace[x].calls
              IN  /\ Cardinality(Within("next", p, EnterOf(x), x)) = k
                  /\ Cardinality(Within("enter", p + 1, EnterOf(x), x)) = k
                  /\ Cardinality(Within("exit", p + 1, EnterOf(x), x)) = k

\* C13's case: of [f, g], f called its continuation twice and g once: g and
\* the sentinel ran twice, the second run after the first had returned.
C13_Witness ==
    /\ status = "done"
    /\ List = <<HandlerFunc(2), HandlerFunc(1)>>
    /\ Entered(trace) = <<0, 1, 2, 1, 2>>
    /\ \E x \in EventsAt("exit", 0) : trace[x].calls = 2

\* ------------------------------------------------- the default node -----
\* The last node of the chain from m, where next is nil.
RECURSIVE LastNode(_)
LastNode(m) == IF m.next = <<>> THEN m ELSE LastNode(m.next[1])

\* C14: the zero-valued node behind the sentinel is never run, whatever the
\* handlers do: nothing is invoked below the sentinel's position, the node
\* at the sentinel's position is the sentinel, the sentinel makes no call of
\* its continuation, and no call on the stack has the zero node as receiver.
C14_DefaultNodeNeverRuns ==
    status # "idle" =>
        /\ LastNode(stacks[served.k].middleware) = ZeroMiddleware
        /\ \A i \in DOMAIN trace :
              /\ trace[i].pos <= N
              /\ trace[i].pos = N =>
                    /\ trace[i].h = VoidHandler
                    /\ trace[i].ev \in {"enter", "exit"}
              /\ trace[i].ev = "panic" => trace[i].pos < N
        /\ \A d \in DOMAIN frames :
              /\ frames[d].m # ZeroMiddleware
              /\ d = N + 1 => frames[d].m = voidMiddleware

\* C14's case: the only handler called its continuation twice, the sentinel
\* ran twice and came back, and nothing ran below it.
C14_Witness ==
    /\ status = "done"
    /\ List = <<HandlerFunc(2)>>
    /\ Cardinality(EventsAt("enter", N)) = 2
    /\ Cardinality(EventsAt("exit", N)) = 2

\* ------------------------------------------- Use during a dispatch -----
\* SpecReentrant: one stack; Use is called between dispatches or from inside
\* the body of a running handler function.
ReHandlers ==
    {HandlerFunc(f) : f \in 0..MaxCalls} \cup {Wrap(Plain), WrapFunc(Plain)}
ReUses == {HandlerFunc(1), Wrap(Plain)}

Inside ==
    /\ status # "running" \/ Running("HandlerFunc", "body")
    /\ UNCHANGED <<ops, dispatch, aside>>

NextReentrant ==
    \/ stacks = <<>> /\ Between
          /\ \E args \in Lists(ReHandlers, MaxChain) : NewCall(args)
    \/ Room /\ Inside /\ \E h \in ReUses : Use(1, h)
    \/ stacks # <<>> /\ KudretServeHTTP(1)
    \/ Step

SpecReentrant == Init /\ [][NextReentrant]_vars

\* List is a prefix of l.
Prefix(l) == Len(l) >= N /\ SubSeq(l, 1, N) = List

\* C15: a dispatch that has read the chain head runs the chain as it was
\* then, whatever Use does to the stack meanwhile: every handler invoked is
\* the one at its position of the list read at the start, every receiver on
\* the call stack is a node of the chain built from that list, and handlers
\* that each call next once run once each, in that order, then the sentinel.
\* A dispatch that starts afterwards runs the stack's list as it is then.
C15_InFlightUnaffected ==
    status # "idle" =>
        /\ Prefix(Handlers(served.k))
        /\ \A i \in Events("enter") :
              trace[i].pos <= N /\ trace[i].h = At(trace[i].pos)
        /\ \A d \in DOMAIN frames :
              frames[d].m = build(SubSeq(List, d, N))
        /\ status = "done" /\ EachCalledOnce =>
              Entered(trace) = [i \in 1..N + 1 |-> i - 1]
        /\ Len(trace) = 1 =>
              /\ List = Handlers(served.k)
              /\ status = "running" => frames[1].m = stacks[served.k].middleware

\* C15's case: a handler appended to the stack during the dispatch, and
\* the dispatch is at the sentinel of the chain it started on, at the
\* position where the stack's chain now has the new handler.
C15_Witness ==
    /\ status = "running"
    /\ N >= 1
    /\ Len(Handlers(served.k)) = N + 1
    /\ Len(frames) = N + 1
    /\ Top.m = voidMiddleware
    /\ NodeAt(stacks[served.k].middleware, N).handler = Handlers(served.k)[N + 1]

\* --------------------------------------- Use concurrent with dispatch -----
\* SpecRace: one stack, a goroutine that registers and a goroutine that
\* dispatches, with no synchronisation between them. k.middleware is a
\* struct of two fields: the assignment in Use writes them one by one and
\* the copy in Kudret.ServeHTTP reads them one by one, in either order.
Fields == {"handler", "next"}

\* Some but not all of the fields are done.
Partial(left) == left # {} /\ left # Fields

RaceOnly == UNCHANGED <<ops, env, detected, snapshot, registered>>

\* Use up to the call of build: the nil check, the append, the new chain.
UseAppend(k, handler) ==
    /\ store.left = {}
    /\ IF handler = Nil
       THEN /\ last' = Called("Use", k, <<handler>>, Handlers(k), "panic")
            /\ UNCHANGED <<arrays, stacks, store>>
       ELSE /\ LET r == GoAppend(arrays, stacks[k].handlers, <<handler>>)
                   c == Collect(r.arrays, [stacks EXCEPT ![k].handlers = r.slice])
               IN  /\ arrays' = c.arrays
                   /\ stacks' = c.stacks
                   /\ store' = [m |-> build(Elems(r.arrays, r.slice)), left |-> Fields]
            /\ last' = Called("Use", k, <<handler>>, Handlers(k), "ok")
    /\ UNCHANGED <<parent, dispatch, load>>
    /\ RaceOnly

\* The assignment, had it written the handler field only.
UseStore_HandlerOnly(k, f) ==
    /\ f \in store.left
    /\ stacks' = IF f = "handler"
                 THEN [stacks EXCEPT ![k].middleware.handler = store.m.handler]
                 ELSE stacks
    /\ store' = [store EXCEPT !.left = @ \ {f}]
    /\ load' = [load EXCEPT !.raced = @ \/ Partial(load.left)]
    /\ UNCHANGED <<arrays, parent, last, dispatch>>
    /\ RaceOnly

\* k.middleware = build(k.handlers): the write of field f.
UseStore(k, f) ==
    /\ f \in store.left
    /\ stacks' = [stacks EXCEPT ![k].middleware[f] = store.m[f]]
    /\ store' = [store EXCEPT !.left = @ \ {f}]
    /\ load' = [load EXCEPT !.raced = @ \/ Partial(load.left)]
    /\ UNCHANGED <<arrays, parent, last, dispatch>>
    /\ RaceOnly

\* Kudret.ServeHTTP: the read of field f of k.middleware into the receiver
\* of middleware.ServeHTTP; the chain runs once both fields are read.
ServeLoad(k, f) ==
    /\ status # "running"
    /\ f \in (IF load.left = {} THEN Fields ELSE load.left)
    /\ LET from == IF load.left = {}
                   THEN [m |-> ZeroMiddleware, left |-> Fields, raced |-> FALSE]
                   ELSE load
           got == [m     |-> [from.m EXCEPT ![f] = stacks[k].middleware[f]],
                   left  |-> from.left \ {f},
                   raced |-> from.raced \/ Partial(store.left)]
       IN  /\ load' = got
           /\ IF got.left = {}
              THEN /\ Becomes(middlewareServeHTTP(got.m, <<>>, <<>>))
                   /\ rw' = <<>>
                   /\ served' = [k |-> k, handlers |-> Handlers(k)]
              ELSE UNCHANGED dispatch
    /\ UNCHANGED <<arrays, stacks, parent, last, store>>
    /\ RaceOnly

NextRace ==
    \/ stacks = <<>> /\ Between
          /\ \E args \in Lists(ReHandlers, MaxChain - 1) : NewCall(args)
    \/ Room /\ \E h \in ReUses : UseAppend(1, h)
    \/ stacks # <<>> /\ \E f \in Fields : UseStore(1, f)
    \/ stacks # <<>> /\ \E f \in Fields : ServeLoad(1, f)
    \/ Step

SpecRace == Init /\ [][NextRace]_vars

\* The heads that k.middleware has held whole: the chains built from the
\* list as it was after New and after each Use.
WholeHeads(k) ==
    {build(SubSeq(Handlers(k), 1, j)) : j \in 0..Len(Handlers(k))}

\* A dispatch has read its head.
HeadRead == status # "idle" /\ load.left = {}

\* The head the dispatch runs is one that Use stored whole, and the zero
\* node behind the old sentinel is not run.
HeadWhole ==
    /\ load.m \in WholeHeads(served.k)
    /\ \A i \in Events("enter") : trace[i].h # Nil

\* C16: a dispatch concurrent with Use runs a head that is wholly the chain
\* before the Use or wholly the chain after it, never a mix of the two.
C16_NeverPartial == HeadRead => HeadWhole

\* C16, for a dispatch whose read of the head did not overlap a write of it.
C16_WholeUnlessOverlapped == HeadRead /\ ~load.raced => HeadWhole

\* C16's case: a Use ran while the dispatch went on; the dispatch had read
\* the head before the Use wrote it, and ran the old chain to the end.
C16_Witness ==
    /\ status = "done" /\ load.left = {} /\ ~load.raced
    /\ store.left = {}
    /\ last.op = "Use"
    /\ load.m # stacks[served.k].middleware
    /\ load.m = build(served.handlers)
    /\ stacks[served.k].middleware = build(Handlers(served.k))

\* ------------------------------------------------------- Handlers() -----
\* SpecSnap: the registration calls of Spec, each also noted in registered,
\* and calls of Handlers(). The slice returned is kept in snapshot, with the
\* contents it had when it was returned and the handlers registered then.
SnapArgs == {<<>>, <<A>>, <<A, B>>}

\* Handlers(): return k.handlers, the slice itself.
HandlersCall(k) ==
    /\ LET a == stacks[k].handlers.arr
           c == Renumber(arrays, stacks, IF a = 0 THEN <<>> ELSE <<a>>)
       IN  /\ arrays' = c.arrays
           /\ stacks' = c.stacks
           /\ snapshot' = [of    |-> k,
                           slice |-> c.stacks[k].handlers,
                           list  |-> Elems(c.arrays, c.stacks[k].handlers),
                           order |-> registered[k]]
    /\ UNCHANGED <<parent, last, ops, dispatch, env, detected, registered, store, load>>

CountedSnap ==
    /\ ops < MaxOps
    /\ ops' = ops + 1
    /\ UNCHANGED <<dispatch, env, detected, snapshot, store, load>>

NextSnap ==
    \/ CountedSnap /\ \E args \in SnapArgs :
          /\ NewCall(args)
          /\ registered' = Append(registered, args)
    \/ CountedSnap /\ \E k \in 1..Len(stacks), args \in SnapArgs :
          /\ With(k, args)
          /\ registered' = Append(registered, registered[k] \o args)
    \/ CountedSnap /\ \E k \in 1..Len(stacks), h \in {Nil, B} :
          /\ Use(k, h)
          /\ registered' = IF h = Nil THEN registered
                           ELSE [registered EXCEPT ![k] = Append(@, h)]
    \/ \E k \in 1..Len(stacks) : HandlersCall(k)

SpecSnap == Init /\ [][NextSnap]_vars

\* C17: the list that Handlers() returned is the handlers registered on the
\* stack up to then, in the order of registration (New's, or the parent's
\* and then With's, and then those of each Use), and its contents stay as
\* they were when it was returned, whatever Use and With do afterwards.
C17_HandlersSnapshot ==
    snapshot.of # 0 =>
        /\ snapshot.list = snapshot.order
        /\ Elems(arrays, snapshot.slice) = snapshot.list
====
